---- MODULE Spec2Model ----
(***************************************************************************)
(* Elastic service tier: a pool of services behind a load balancer, resized *)
(* by an autoscaler.  Two programs are modelled:                            *)
(*   static_webtier.py        LoadBalancer / AutoScaler /                   *)
(*                            DynamicServiceManager (min/max bounded)       *)
(*   dynamic_webtier_simul.py LoadBalancer / BudgetConstrainedAutoScaler /  *)
(*                            DynamicWebTier (budget constrained)           *)
(* A behaviour runs one of the two programs; `program` says which.  Calls   *)
(* are executed one at a time (sequential execution) in SpecStatic,         *)
(* SpecDynamic and Spec; SpecThreads runs the requests of the executor's    *)
(* worker threads and the autoscaler thread statement by statement.         *)
(* SpecIds adds the ids test_service_factory draws; SpecFrozen runs the     *)
(* autoscaler's loop alone, with the default thresholds, on frozen loads.   *)
(*                                                                          *)
(* dynamic_webtier_simul.py:72 (def process_request of Database) lacks its  *)
(* colon; the method is read as its body states.  Services are external:    *)
(* a process_request call either returns or raises.  Average loads are      *)
(* compared by cross-multiplication, which is exact.                        *)
(***************************************************************************)
EXTENDS Integers, Sequences, FiniteSets

\* ------------------------------------------------------------------ bounds
\* Largest min_services / max_services a DynamicServiceManager is built with.
MaxMinServices == 2
MaxMaxServices == 3
\* A request is dispatched only to a service whose load is below MaxLoad.
MaxLoad == 2
\* Worker threads of the executor that run requests at the same time, and the
\* requests each of them runs.
NumWorkers == 2
MaxRequests == 1

\* ------------------------------------------------------------------ state
VARIABLES
    program,                 \* which of the two programs runs
    min_services,            \* AutoScaler.min_services
    max_services,            \* AutoScaler.max_services
    scale_up_threshold,      \* (BudgetConstrained)AutoScaler.scale_up_threshold
    scale_down_threshold,    \* (BudgetConstrained)AutoScaler.scale_down_threshold
    distribution_algorithm,  \* LoadBalancer.distribution_algorithm
    total_budget,            \* BudgetConstrainedAutoScaler.total_budget
    services,                \* LoadBalancer.services (static_webtier.py)
    last_service_index,      \* LoadBalancer.last_service_index (static_webtier.py)
    web_servers,             \* DynamicWebTier.web_servers = web_lb.services
    databases,               \* DynamicWebTier.databases = db_lb.services
    web_lb_index,            \* web_lb.last_service_index
    db_lb_index,             \* db_lb.last_service_index
    load,                    \* Service.load, per service object
    cost,                    \* Service.cost, per service object
    service_id,              \* Service.service_id, per service object (its random suffix)
    workers,                 \* per worker thread: where it is in process_request, its locals
    processed,               \* history: per service object, the requests it processed
    visited,                 \* history: per balancer, its selections since its pool last changed
    ret                      \* history: what the last call did and returned

\* The constructor arguments, which no call changes.
config == <<program, min_services, max_services, scale_up_threshold,
            scale_down_threshold, distribution_algorithm, total_budget>>

\* The state of each program.
static == <<services, last_service_index>>
dynamic == <<web_servers, databases, web_lb_index, db_lb_index, cost>>

\* The worker threads.
threads == <<workers, processed>>

vars == <<config, static, dynamic, load, service_id, threads, visited, ret>>

\* Service objects are told apart by identity (no __eq__ is defined).
MaxObjs == 6
Objs == 1..MaxObjs

Algorithms == {"round_robin", "least_connections", "weighted"}

\* The scale_up_threshold / scale_down_threshold values an autoscaler is built
\* with, in either order.
Thresholds == {1, 2}

\* The balancers: lb of static_webtier.py, web_lb and db_lb of dynamic_webtier_simul.py.
Balancers == {"lb", "web_lb", "db_lb"}

\* ---------------------------------------------------------------- helpers
Range(s) == {s[i] : i \in 1..Len(s)}

\* sum(service.load for service in pool): one term per pool position.
RECURSIVE SumLoad(_, _)
SumLoad(pool, ld) ==
    IF pool = <<>> THEN 0 ELSE ld[Head(pool)] + SumLoad(Tail(pool), ld)

\* Variant: a scale-up comparison that is not strict.
AvgLoadAtLeast(total, n, t) == IF n = 0 THEN 0 >= t ELSE total >= t * n

\* avg_load = total_load / len(pool) if pool else 0, compared with a threshold.
\* total/n > t  iff  total > t*n  for n > 0 (no rounding is involved).
AvgLoadAbove(total, n, t) == IF n = 0 THEN 0 > t ELSE total > t * n
AvgLoadBelow(total, n, t) == IF n = 0 THEN 0 < t ELSE total < t * n

\* list.remove(x): drops the first element equal to x.
RECURSIVE ListRemove(_, _)
ListRemove(pool, x) ==
    IF pool = <<>> THEN <<>>
    ELSE IF Head(pool) = x THEN Tail(pool)
    ELSE <<Head(pool)>> \o ListRemove(Tail(pool), x)

\* list.pop(): drops the last element.
ListPop(pool) == SubSeq(pool, 1, Len(pool) - 1)

\* A service_factory() call returns a new object (load 0), or, for a factory
\* that hands out an object it already returned, one that is in the pool.
\* New objects take the smallest identity no pool position refers to.
NewObjs(pool) == {o \in Objs \ Range(pool) : \A p \in Objs \ Range(pool) : o <= p}
FactoryResults(pool) == NewObjs(pool) \cup Range(pool)

\* An object no pool position refers to any more is unobservable: its load is
\* forgotten, so that its identity can stand for a new object.
Forget(ld, pool) == [o \in Objs |-> IF o \in Range(pool) THEN ld[o] ELSE 0]

\* ------------------------------------------------- LoadBalancer (selection)
\* Variant: a cursor that wraps by resetting to 0 instead of by the modulo.
RoundRobinReset(last, n) == IF last + 1 >= n THEN 0 ELSE last + 1

\* Variant: a cursor left beyond the pool by a removal restarts at 0.
RoundRobinClamped(last, n) == IF last >= n THEN 0 ELSE (last + 1) % n

\* round_robin: (last_service_index + 1) % len(services), a 0-based index.
RoundRobinIndex(last, n) == (last + 1) % n

\* Variant: a minimum that returns the last minimal element.
LeastConnectionsLast(pool, ld) ==
    CHOOSE i \in 0..(Len(pool) - 1) :
        /\ \A j \in 0..(Len(pool) - 1) : ld[pool[i + 1]] <= ld[pool[j + 1]]
        /\ \A j \in (i + 1)..(Len(pool) - 1) : ld[pool[j + 1]] > ld[pool[i + 1]]

\* least_connections: min(services, key=load) returns the first minimal element;
\* the result is its 0-based position.
LeastConnectionsIndex(pool, ld) ==
    CHOOSE i \in 0..(Len(pool) - 1) :
        /\ \A j \in 0..(Len(pool) - 1) : ld[pool[i + 1]] <= ld[pool[j + 1]]
        /\ \A j \in 0..(i - 1) : ld[pool[j + 1]] > ld[pool[i + 1]]

\* The window of the most recent round-robin selections on an unchanged pool:
\* start is the cursor before the first of them, sel the indices selected,
\* at most n of them.
NoVisits == [start |-> -1, sel |-> <<>>]
NeverVisited == [b \in Balancers |-> NoVisits]
Visit(v, last, idx, n) ==
    IF v.sel = <<>> THEN [start |-> last, sel |-> <<idx>>]
    ELSE IF Len(v.sel) < n THEN [start |-> v.start, sel |-> Append(v.sel, idx)]
    ELSE [start |-> Head(v.sel), sel |-> Append(Tail(v.sel), idx)]

\* A worker thread of the executor: pc is the statement it is at, tier the
\* balancer it is in, service and tmp its locals (the service selected, the
\* load read by load += 1), requests the requests it has taken, res the
\* outcome of its last request.
IdleWorker ==
    [pc |-> "idle", tier |-> "none", service |-> 0, tmp |-> 0, requests |-> 0,
     res |-> "none"]
Workers == 1..NumWorkers
NoWorkers == [w \in Workers |-> IdleWorker]
NoneProcessed == [o \in Objs |-> 0]

\* No service_id is modelled (0) where the ids play no part.
NoIds == [o \in Objs |-> 0]

\* What a call did and returned.
\*   op     the call                res    its outcome (the web tier's, for a two-tier request)
\*   sel    the 0-based index selected (-1: none)
\*   dbres, dbsel    the same for the storage tier of a two-tier request
\*   made   the class of service the factory was asked for, made_cost its cost
\*   avail  available_budget as check_and_scale computed it
\*   log    the log events of the call, in order
\*   out    what a two-tier request gives its caller: the combined response
\*          or the exception that left process_request
NoRet ==
    [op |-> "init", res |-> "none", sel |-> -1, dbres |-> "none", dbsel |-> -1,
     made |-> "none", made_cost |-> 0, avail |-> 0, log |-> <<>>, out |-> "none"]
RetDistribute(res, sel) ==
    [NoRet EXCEPT !.op = "distribute_request", !.res = res, !.sel = sel]
RetScale(res, made, log) ==
    [NoRet EXCEPT !.op = "check_and_scale", !.res = res, !.made = made, !.log = log]

\* ------------------------------------------------------------------- Init
\* Pools a factory can have produced in n calls.
RECURSIVE FactoryPools(_)
FactoryPools(n) ==
    IF n = 0 THEN {<<>>}
    ELSE UNION {{Append(p, o) : o \in FactoryResults(p)} : p \in FactoryPools(n - 1)}

\* DynamicServiceManager.__init__: min_services factory-made services are
\* added to a new LoadBalancer.
StaticConstructed ==
    /\ program = "static_webtier"
    /\ min_services \in 0..MaxMinServices
    /\ max_services \in 1..MaxMaxServices
    /\ scale_up_threshold \in Thresholds
    /\ scale_down_threshold \in Thresholds
    /\ distribution_algorithm \in Algorithms
    /\ total_budget = 0
    /\ services \in FactoryPools(min_services)
    /\ last_service_index = -1
    /\ web_servers = <<>>
    /\ databases = <<>>
    /\ web_lb_index = -1
    /\ db_lb_index = -1
    /\ load = [o \in Objs |-> 0]
    /\ cost = [o \in Objs |-> 0]
    /\ visited = NeverVisited
    /\ ret = NoRet
    /\ workers = NoWorkers
    /\ processed = NoneProcessed

\* No service_id is modelled where the ids play no part.
InitStatic == StaticConstructed /\ service_id = NoIds

\* ------------------------------------------- static_webtier.py: operations
\* Variant: the load is counted before process_request is called.
CountAndProcess(ld, service, fails) == [ld EXCEPT ![service] = @ + 1]

\* result = service.process_request(request); service.load += 1: the loads
\* after the call (a raising process_request skips the increment).
ProcessAndCount(ld, service, fails) ==
    IF fails THEN ld ELSE [ld EXCEPT ![service] = @ + 1]

\* Variant: a size test that lets the pool reach max_services + 1.
ShouldScaleUpToMax(total, n, up, max) == AvgLoadAbove(total, n, up) /\ n <= max

\* avg_load > scale_up_threshold and len(services) < max_services
ShouldScaleUp(total, n, up, max) == AvgLoadAbove(total, n, up) /\ n < max

\* Variant: a size test that lets the pool fall to min_services - 1.
ShouldScaleDownFromMin(total, n, down, min) == AvgLoadBelow(total, n, down) /\ n >= min

\* avg_load < scale_down_threshold and len(services) > min_services
ShouldScaleDown(total, n, down, min) == AvgLoadBelow(total, n, down) /\ n > min

\* LoadBalancer.distribute_request (DynamicServiceManager.process_request
\* delegates to it).  fails: the selected service's process_request raises.
distribute_request(fails) ==
    /\ program = "static_webtier"
    /\ UNCHANGED <<config, dynamic, services>>
    /\ IF services = <<>>
       THEN /\ ret' = RetDistribute("No services available", -1)
            /\ UNCHANGED <<last_service_index, load, visited>>
       ELSE IF distribution_algorithm \notin {"round_robin", "least_connections"}
       THEN /\ ret' = RetDistribute("Unknown distribution algorithm", -1)
            /\ UNCHANGED <<last_service_index, load, visited>>
       ELSE LET n == Len(services)
                rr == distribution_algorithm = "round_robin"
                idx == IF rr THEN RoundRobinIndex(last_service_index, n)
                       ELSE LeastConnectionsIndex(services, load)
                service == services[idx + 1]
            IN  /\ ~fails => load[service] < MaxLoad
                /\ last_service_index' = IF rr THEN idx ELSE last_service_index
                /\ visited' = IF rr
                              THEN [visited EXCEPT
                                      !["lb"] = Visit(@, last_service_index, idx, n)]
                              ELSE visited
                /\ load' = ProcessAndCount(load, service, fails)
                /\ ret' = RetDistribute(IF fails THEN "process_request failed" ELSE "ok",
                                        idx)

\* AutoScaler.check_and_scale.  new_service: what service_factory() returns
\* if it is called.
check_and_scale(new_service) ==
    /\ program = "static_webtier"
    /\ UNCHANGED <<config, dynamic, last_service_index>>
    /\ LET n == Len(services)
           total_load == SumLoad(services, load)
       IN  IF ShouldScaleUp(total_load, n, scale_up_threshold, max_services)
           THEN /\ services' = Append(services, new_service)
                /\ load' = load
                /\ visited' = [visited EXCEPT !["lb"] = NoVisits]
                /\ ret' = RetScale("scale_up", "service", <<"Added service", "Scaling up">>)
           ELSE IF ShouldScaleDown(total_load, n, scale_down_threshold, min_services)
           THEN LET service_to_remove == services[n]
                IN  /\ services' = ListRemove(services, service_to_remove)
                    /\ load' = Forget(load, services')
                    /\ visited' = [visited EXCEPT !["lb"] = NoVisits]
                    /\ ret' = RetScale("scale_down", "none",
                                       <<"Removed service", "Scaling down">>)
           ELSE /\ ret' = RetScale("none", "none", <<>>)
                /\ UNCHANGED <<services, load, visited>>

\* ------------------------------------ dynamic_webtier_simul.py: constants
\* WebServer.__init__ and Database.__init__: the default cost of each class.
WebServerCost == 10
DatabaseCost == 20
\* DynamicWebTier.__init__: initial_web_servers, initial_databases.
initial_web_servers == 2
initial_databases == 1
\* check_and_scale: the budget a new database / a new web server asks for.
WebServerBudget == 10
\* Variant: a database is tried on the budget a web server asks for.
DatabaseBudgetOfWebServer == WebServerBudget
DatabaseBudget == 20
\* check_and_scale: random.random() < 0.3 and random.random() < 0.7, in tenths.
ScaleUpDatabaseChance == 3
ScaleDownWebServerChance == 7
\* random.random(), in tenths: one value of each interval the code tells apart.
Randoms == {1, 5, 9}

\* The budgets a DynamicWebTier is built with, and the costs the factories
\* handed to a BudgetConstrainedAutoScaler give the services they make.
Budgets == {30, 55, 65}
Costs == {15, 20, 35}

\* sum(s.cost for s in pool): one term per pool position.
RECURSIVE SumCost(_, _)
SumCost(pool, c) ==
    IF pool = <<>> THEN 0 ELSE c[Head(pool)] + SumCost(Tail(pool), c)

\* DynamicWebTier.__init__: the initial web servers and databases, each of its
\* class's default cost, one round-robin LoadBalancer per pool.
InitDynamic ==
    /\ program = "dynamic_webtier_simul"
    /\ min_services = 0
    /\ max_services = 0
    /\ scale_up_threshold \in Thresholds
    /\ scale_down_threshold \in Thresholds
    /\ distribution_algorithm = "round_robin"
    /\ total_budget \in Budgets
    /\ services = <<>>
    /\ last_service_index = -1
    /\ web_servers = [i \in 1..initial_web_servers |-> i]
    /\ databases = [i \in 1..initial_databases |-> initial_web_servers + i]
    /\ web_lb_index = -1
    /\ db_lb_index = -1
    /\ load = [o \in Objs |-> 0]
    /\ cost = [o \in Objs |->
                 IF o <= initial_web_servers THEN WebServerCost
                 ELSE IF o <= initial_web_servers + initial_databases THEN DatabaseCost
                 ELSE 0]
    /\ visited = NeverVisited
    /\ ret = NoRet
    /\ service_id = NoIds
    /\ workers = NoWorkers
    /\ processed = NoneProcessed

\* ------------------------------------ dynamic_webtier_simul.py: operations
\* Variant: an empty pool resets the cursor before the call fails.
DispatchResetting(pool, last, fails) ==
    IF pool = <<>>
    THEN [res |-> "No services available", sel |-> -1, last |-> -1, served |-> 0]
    ELSE LET idx == RoundRobinIndex(last, Len(pool))
         IN  [res |-> IF fails THEN "process_request failed" ELSE "ok",
              sel |-> idx, last |-> idx,
              served |-> IF fails THEN 0 ELSE pool[idx + 1]]

\* LoadBalancer.distribute_request on one pool: the outcome, the index
\* selected, the new cursor and the service whose process_request returned
\* (0: none).  WebServer and Database count the request in their own load when
\* process_request succeeds.
Dispatch(pool, last, fails) ==
    IF pool = <<>>
    THEN [res |-> "No services available", sel |-> -1, last |-> last, served |-> 0]
    ELSE LET idx == RoundRobinIndex(last, Len(pool))
         IN  [res |-> IF fails THEN "process_request failed" ELSE "ok",
              sel |-> idx, last |-> idx,
              served |-> IF fails THEN 0 ELSE pool[idx + 1]]

NotDispatched(last) == [res |-> "none", sel |-> -1, last |-> last, served |-> 0]

Served(ld, o) == IF o = 0 THEN ld ELSE [ld EXCEPT ![o] = @ + 1]

\* Variant: the storage tier is dispatched whatever the web tier did.
StorageDispatchAlways(w, pool, last, fails) == Dispatch(pool, last, fails)

\* db_response = self.db_lb.distribute_request(request): the statement is
\* reached only if the web tier's call returned; an exception of the web tier
\* leaves process_request before it.  w: the web tier's dispatch.
StorageDispatch(w, pool, last, fails) ==
    IF w.res = "ok" THEN Dispatch(pool, last, fails) ELSE NotDispatched(last)

\* What process_request gives its caller: the first exception raised, else
\* f"{web_response} -> {db_response}".
TwoTierResponse(web_res, db_res) ==
    IF web_res # "ok" THEN web_res
    ELSE IF db_res # "ok" THEN db_res
    ELSE "web_response -> db_response"

\* DynamicWebTier.process_request: web_lb.distribute_request, then
\* db_lb.distribute_request.
process_request(web_fails, db_fails) ==
    /\ program = "dynamic_webtier_simul"
    /\ UNCHANGED <<config, static, web_servers, databases, cost>>
    /\ LET w == Dispatch(web_servers, web_lb_index, web_fails)
           d == StorageDispatch(w, databases, db_lb_index, db_fails)
       IN  /\ w.served # 0 => load[w.served] < MaxLoad
           /\ d.served # 0 => load[d.served] < MaxLoad
           /\ web_lb_index' = w.last
           /\ db_lb_index' = d.last
           /\ load' = Served(Served(load, w.served), d.served)
           /\ visited' = [visited EXCEPT
                  !["web_lb"] = IF w.sel = -1 THEN @
                                ELSE Visit(@, web_lb_index, w.sel, Len(web_servers)),
                  !["db_lb"] = IF d.sel = -1 THEN @
                               ELSE Visit(@, db_lb_index, d.sel, Len(databases))]
           /\ ret' = [NoRet EXCEPT !.op = "process_request", !.res = w.res,
                        !.sel = w.sel, !.dbres = d.res, !.dbsel = d.sel,
                        !.out = TwoTierResponse(w.res, d.res)]

\* Variant: the new service is appended whatever it costs.
WithinAnyBudget(new_cost, available_budget) == new_cost >= 0

\* new.cost <= available_budget: the guard of both appends.
WithinBudget(new_cost, available_budget) == new_cost <= available_budget

RetBudget(res, made, made_cost, avail, log) ==
    [NoRet EXCEPT !.op = "check_and_scale", !.res = res, !.made = made,
       !.made_cost = made_cost, !.avail = avail, !.log = log]

\* BudgetConstrainedAutoScaler.check_and_scale.  random: what random.random()
\* returns if it is called (in tenths); new_cost: the cost of the service the
\* factory makes if it is called.
budget_check_and_scale(random, new_cost) ==
    /\ program = "dynamic_webtier_simul"
    /\ UNCHANGED <<config, static, web_lb_index, db_lb_index>>
    /\ LET all == web_servers \o databases
           total_load == SumLoad(web_servers, load) + SumLoad(databases, load)
           current_cost == SumCost(web_servers, cost) + SumCost(databases, cost)
           available_budget == total_budget - current_cost
           new == CHOOSE o \in NewObjs(all) : TRUE
       IN  IF AvgLoadAbove(total_load, Len(all), scale_up_threshold) /\ available_budget > 0
           THEN IF available_budget >= DatabaseBudget /\ random < ScaleUpDatabaseChance
                THEN /\ NewObjs(all) # {}
                     /\ IF WithinBudget(new_cost, available_budget)
                        THEN /\ databases' = Append(databases, new)
                             /\ cost' = [cost EXCEPT ![new] = new_cost]
                             /\ visited' = [visited EXCEPT !["db_lb"] = NoVisits]
                             /\ ret' = RetBudget("scale_up", "database", new_cost,
                                          available_budget,
                                          <<"Scaling up. New database added",
                                            "Current setup">>)
                             /\ UNCHANGED <<web_servers, load>>
                        ELSE /\ ret' = RetBudget("none", "database", new_cost,
                                          available_budget, <<"Current setup">>)
                             /\ UNCHANGED <<web_servers, databases, cost, load, visited>>
                ELSE IF available_budget >= WebServerBudget
                THEN /\ NewObjs(all) # {}
                     /\ IF WithinBudget(new_cost, available_budget)
                        THEN /\ web_servers' = Append(web_servers, new)
                             /\ cost' = [cost EXCEPT ![new] = new_cost]
                             /\ visited' = [visited EXCEPT !["web_lb"] = NoVisits]
                             /\ ret' = RetBudget("scale_up", "web_server", new_cost,
                                          available_budget,
                                          <<"Scaling up. New web server added",
                                            "Current setup">>)
                             /\ UNCHANGED <<databases, load>>
                        ELSE /\ ret' = RetBudget("none", "web_server", new_cost,
                                          available_budget, <<"Current setup">>)
                             /\ UNCHANGED <<web_servers, databases, cost, load, visited>>
                ELSE /\ ret' = RetBudget("none", "none", 0, available_budget,
                                         <<"Current setup">>)
                     /\ UNCHANGED <<web_servers, databases, cost, load, visited>>
           ELSE IF /\ AvgLoadBelow(total_load, Len(all), scale_down_threshold)
                   /\ (Len(web_servers) > 1 \/ Len(databases) > 1)
           THEN IF /\ web_servers # <<>>
                   /\ (Len(databases) <= 1 \/ random < ScaleDownWebServerChance)
                THEN /\ web_servers' = ListPop(web_servers)
                     /\ load' = Forget(load, web_servers' \o databases)
                     /\ cost' = Forget(cost, web_servers' \o databases)
                     /\ visited' = [visited EXCEPT !["web_lb"] = NoVisits]
                     /\ ret' = RetBudget("scale_down", "none", 0, available_budget,
                                  <<"Scaling down. Web server removed", "Current setup">>)
                     /\ UNCHANGED databases
                ELSE IF databases # <<>>
                THEN /\ databases' = ListPop(databases)
                     /\ load' = Forget(load, web_servers \o databases')
                     /\ cost' = Forget(cost, web_servers \o databases')
                     /\ visited' = [visited EXCEPT !["db_lb"] = NoVisits]
                     /\ ret' = RetBudget("scale_down", "none", 0, available_budget,
                                  <<"Scaling down. Database removed", "Current setup">>)
                     /\ UNCHANGED web_servers
                ELSE /\ ret' = RetBudget("none", "none", 0, available_budget,
                                         <<"Current setup">>)
                     /\ UNCHANGED <<web_servers, databases, cost, load, visited>>
           ELSE /\ ret' = RetBudget("none", "none", 0, available_budget,
                                    <<"Current setup">>)
                /\ UNCHANGED <<web_servers, databases, cost, load, visited>>

\* ------------------------- dynamic_webtier_simul.py: the program's threads
\* simulate_traffic submits web_tier.process_request to a ThreadPoolExecutor;
\* the autoscaler runs in a thread of its own.  No statement takes a lock, so
\* another thread may run between any two statements of a request.  A worker
\* goes through both balancers: the web tier's, then the storage tier's.
TierPool(tier) == IF tier = "web" THEN web_servers ELSE databases
TierIndex(tier) == IF tier = "web" THEN web_lb_index ELSE db_lb_index

\* The request leaves process_request with outcome res (an exception, or "ok").
Finish(w, res) ==
    workers' = [workers EXCEPT ![w] = [@ EXCEPT !.pc = "idle", !.tier = "none",
                                          !.service = 0, !.tmp = 0, !.res = res]]

\* executor.submit(web_tier.process_request, ...): worker w takes a request
\* and enters web_lb.distribute_request.
Submit(w) ==
    /\ program = "dynamic_webtier_simul"
    /\ workers[w].pc = "idle"
    /\ workers[w].requests < MaxRequests
    /\ workers' = [workers EXCEPT ![w] = [@ EXCEPT !.pc = "check", !.tier = "web",
                                             !.requests = @ + 1, !.res = "running"]]
    /\ UNCHANGED <<config, static, dynamic, load, service_id, processed, visited, ret>>

\* if not self.services: raise Exception("No services available")
LbCheck(w) ==
    /\ workers[w].pc = "check"
    /\ IF TierPool(workers[w].tier) = <<>>
       THEN Finish(w, "No services available")
       ELSE workers' = [workers EXCEPT ![w].pc = "index"]
    /\ UNCHANGED <<config, static, dynamic, load, service_id, processed, visited, ret>>

\* self.last_service_index = (self.last_service_index + 1) % len(self.services)
LbIndex(w) ==
    /\ workers[w].pc = "index"
    /\ LET tier == workers[w].tier
           n == Len(TierPool(tier))
       IN  IF n = 0
           THEN /\ Finish(w, "ZeroDivisionError")
                /\ UNCHANGED <<web_lb_index, db_lb_index>>
           ELSE /\ workers' = [workers EXCEPT ![w].pc = "get"]
                /\ web_lb_index' = IF tier = "web" THEN RoundRobinIndex(web_lb_index, n)
                                   ELSE web_lb_index
                /\ db_lb_index' = IF tier = "db" THEN RoundRobinIndex(db_lb_index, n)
                                  ELSE db_lb_index
    /\ UNCHANGED <<config, static, web_servers, databases, cost, load, service_id,
                   processed, visited, ret>>

\* service = self.services[self.last_service_index]
LbGet(w) ==
    /\ workers[w].pc = "get"
    /\ LET pool == TierPool(workers[w].tier)
           idx == TierIndex(workers[w].tier)
       IN  IF idx >= Len(pool)
           THEN Finish(w, "IndexError")
           ELSE workers' = [workers EXCEPT ![w] = [@ EXCEPT !.pc = "call",
                                                     !.service = pool[idx + 1]]]
    /\ UNCHANGED <<config, static, dynamic, load, service_id, processed, visited, ret>>

\* return service.process_request(request), up to the read of self.load in
\* self.load += 1.  fails: the service raises before it counts the request.
ServiceCall(w, fails) ==
    /\ workers[w].pc = "call"
    /\ IF fails
       THEN /\ Finish(w, "process_request failed")
            /\ UNCHANGED processed
       ELSE /\ workers' = [workers EXCEPT ![w] = [@ EXCEPT !.pc = "store",
                                                    !.tmp = load[workers[w].service]]]
            /\ processed' = [processed EXCEPT ![workers[w].service] = @ + 1]
    /\ UNCHANGED <<config, static, dynamic, load, service_id, visited, ret>>

\* The store of self.load += 1 and the return.  After the web tier's response
\* the worker enters db_lb.distribute_request; after the storage tier's it
\* returns the combined response.
LoadStore(w) ==
    /\ workers[w].pc = "store"
    /\ load' = [load EXCEPT ![workers[w].service] = workers[w].tmp + 1]
    /\ IF workers[w].tier = "web"
       THEN workers' = [workers EXCEPT ![w] = [@ EXCEPT !.pc = "check", !.tier = "db",
                                                 !.service = 0, !.tmp = 0]]
       ELSE Finish(w, "ok")
    /\ UNCHANGED <<config, static, dynamic, service_id, processed, visited, ret>>

\* One check_and_scale of the autoscaler thread (_run_auto_scaler), run between
\* two statements of the workers.  It is interleaved only while no worker holds
\* a reference to a service, so that a removed object is referred to by nobody.
AutoScalerStep(random, new_cost) ==
    /\ \A w \in Workers : workers[w].service = 0
    /\ budget_check_and_scale(random, new_cost)
    /\ processed' = Forget(processed, web_servers' \o databases')
    /\ UNCHANGED <<service_id, workers>>

\* ---------------------------------------------------------- specification
\* static_webtier.py: a DynamicServiceManager, its requests and scaling checks.
NextStatic ==
    \/ \E fails \in BOOLEAN :
          distribute_request(fails) /\ UNCHANGED <<service_id, threads>>
    \/ \E new_service \in FactoryResults(services) :
          check_and_scale(new_service) /\ UNCHANGED <<service_id, threads>>

SpecStatic == InitStatic /\ [][NextStatic]_vars

\* dynamic_webtier_simul.py: a DynamicWebTier, its requests and scaling checks.
NextDynamic ==
    \/ \E web_fails, db_fails \in BOOLEAN :
          process_request(web_fails, db_fails) /\ UNCHANGED <<service_id, threads>>
    \/ \E random \in Randoms, new_cost \in Costs :
          budget_check_and_scale(random, new_cost) /\ UNCHANGED <<service_id, threads>>

SpecDynamic == InitDynamic /\ [][NextDynamic]_vars

\* dynamic_webtier_simul.py with its threads: the executor's workers and the
\* autoscaler thread, interleaved statement by statement.
NextThreads ==
    \/ \E w \in Workers : Submit(w)
    \/ \E w \in Workers : LbCheck(w)
    \/ \E w \in Workers : LbIndex(w)
    \/ \E w \in Workers : LbGet(w)
    \/ \E w \in Workers, fails \in BOOLEAN : ServiceCall(w, fails)
    \/ \E w \in Workers : LoadStore(w)
    \/ \E random \in Randoms, new_cost \in Costs : AutoScalerStep(random, new_cost)

SpecThreads == InitDynamic /\ [][NextThreads]_vars

\* static_webtier.py run with its own factory, test_service_factory: every
\* call makes a new TestService whose service_id is
\* f"Service-{random.randint(1000, 9999)}".  ServiceIds: values the draw can
\* give (the two ends of its range).
ServiceIds == {1000, 9999}

\* The service_ids after the factory made service new with suffix id, or after
\* a service left the pool.
IdsAfter(res, pool, new, id) ==
    IF res = "scale_up" THEN [service_id EXCEPT ![new] = id]
    ELSE Forget(service_id, pool)

\* DynamicServiceManager(test_service_factory, ...): the min_services services
\* are distinct objects, each with the id it drew.
InitIds ==
    /\ StaticConstructed
    /\ \A i, j \in 1..Len(services) : services[i] = services[j] => i = j
    /\ service_id \in {ids \in [Objs -> ServiceIds \cup {0}] :
                          \A o \in Objs : ids[o] = 0 <=> o \notin Range(services)}

NextIds ==
    \/ \E fails \in BOOLEAN :
          distribute_request(fails) /\ UNCHANGED <<service_id, threads>>
    \/ \E new_service \in NewObjs(services), id \in ServiceIds :
          /\ check_and_scale(new_service)
          /\ service_id' = IdsAfter(ret'.res, services', new_service, id)
          /\ UNCHANGED threads

SpecIds == InitIds /\ [][NextIds]_vars

\* static_webtier.py while no request is dispatched: the autoscaler thread's
\* loop is the only activity.  The thresholds are DynamicServiceManager's
\* defaults; the pool is any list of distinct services a LoadBalancer can hold
\* (add_service), each with the load its past requests left it (FrozenLoads).
DefaultScaleUpThreshold == 10
\* Variant: a scale-down threshold above the scale-up threshold.
ScaleDownAboveScaleUp == DefaultScaleUpThreshold + 2
DefaultScaleDownThreshold == 5
FrozenLoads == {0, 11, 25}

InitFrozen ==
    /\ program = "static_webtier"
    /\ min_services \in 0..MaxMinServices
    /\ max_services \in 1..MaxMaxServices
    /\ scale_up_threshold = DefaultScaleUpThreshold
    /\ scale_down_threshold = DefaultScaleDownThreshold
    /\ distribution_algorithm = "round_robin"
    /\ total_budget = 0
    /\ \E n \in 0..(MaxMaxServices + 1) : services = [i \in 1..n |-> i]
    /\ last_service_index = -1
    /\ web_servers = <<>>
    /\ databases = <<>>
    /\ web_lb_index = -1
    /\ db_lb_index = -1
    /\ load \in {ld \in [Objs -> FrozenLoads] : ld = Forget(ld, services)}
    /\ cost = [o \in Objs |-> 0]
    /\ visited = NeverVisited
    /\ ret = NoRet
    /\ service_id = NoIds
    /\ workers = NoWorkers
    /\ processed = NoneProcessed

\* _run_auto_scaler: while True: check_and_scale(); sleep(5).  The factory
\* makes a new service (load 0).
NextFrozen ==
    \E new_service \in NewObjs(services) :
        check_and_scale(new_service) /\ UNCHANGED <<service_id, threads>>

\* The loop never ends, so a check that can be made is made.
SpecFrozen == InitFrozen /\ [][NextFrozen]_vars /\ WF_vars(NextFrozen)

\* Either program.
Init == InitStatic \/ InitDynamic

Next == NextStatic \/ NextDynamic

Spec == Init /\ [][Next]_vars

\* ------------------------------------------------------------------ claims
\* A full window: as many consecutive round-robin selections as the pool has
\* positions, the pool unchanged meanwhile.
FullWindow(pool, v) == Len(pool) >= 1 /\ Len(v.sel) = Len(pool)

\* The selections of a window go through the pool in order, cyclically, from
\* the position after the starting cursor, and cover each position once.
InPoolOrder(pool, v) ==
    LET N == Len(pool)
    IN  /\ \A k \in 1..N : v.sel[k] = (v.start + k) % N
        /\ \A i \in 0..(N - 1) : Cardinality({k \in 1..N : v.sel[k] = i}) = 1

\* C1: on a pool of size N >= 1 that is not mutated meanwhile, N consecutive
\* round-robin distribute_request calls select each of the N positions exactly
\* once, in pool order (cyclically, from just after the cursor), whatever the
\* cursor held at the start (-1, or a value >= N left from a larger pool).
C1_RoundRobinVisitsEachOnce ==
    /\ FullWindow(services, visited["lb"]) => InPoolOrder(services, visited["lb"])
    /\ FullWindow(web_servers, visited["web_lb"])
          => InPoolOrder(web_servers, visited["web_lb"])
    /\ FullWindow(databases, visited["db_lb"])
          => InPoolOrder(databases, visited["db_lb"])

\* C1's case: a full window on a pool of two or more that started with a
\* cursor beyond the pool, the pool having shrunk.
C1_Witness ==
    /\ FullWindow(services, visited["lb"])
    /\ Len(services) >= 2
    /\ visited["lb"].start >= Len(services)

\* C2: a least_connections distribute_request call selects a service of
\* minimum load among the pool at selection time, and the earliest such in
\* pool order.
C2_LeastConnectionsSelectsFirstMinimum ==
    [][(/\ ret'.op = "distribute_request"
        /\ distribution_algorithm = "least_connections"
        /\ ret'.sel # -1)
       => LET s == ret'.sel + 1
          IN  /\ s \in 1..Len(services)
              /\ \A i \in 1..Len(services) : load[services[s]] <= load[services[i]]
              /\ \A i \in 1..(s - 1) : load[services[i]] > load[services[s]]]_vars

\* C2's case: after the pool has grown, a least_connections call has selected
\* a service that is not the first of the pool and has served before.
C2_Witness ==
    /\ distribution_algorithm = "least_connections"
    /\ ret.op = "distribute_request"
    /\ ret.res = "ok"
    /\ ret.sel >= 1
    /\ Len(services) > min_services
    /\ load[services[ret.sel + 1]] >= 2

\* The loads after a dispatch with outcome res to position sel of pool.
LoadsAfter(ld, pool, res, sel) ==
    IF res = "ok" THEN [ld EXCEPT ![pool[sel + 1]] = ld[pool[sel + 1]] + 1] ELSE ld

\* C3: a distribute_request call on a non-empty pool whose selected service's
\* process_request returns adds 1 to that service's load and changes no other
\* load; if process_request fails, no load changes, the failure is the call's
\* outcome, and no other service is tried (in the two-tier request: the
\* storage tier is not dispatched to).
C3_OneLoadPerSuccessfulRequest ==
    [][/\ (ret'.op = "distribute_request" /\ services # <<>>)
          => /\ load' = LoadsAfter(load, services, ret'.res, ret'.sel)
             /\ ret'.res = "ok" => load'[services[ret'.sel + 1]] =
                                       load[services[ret'.sel + 1]] + 1
       /\ (ret'.op = "process_request" /\ web_servers # <<>>)
          => /\ load' = LoadsAfter(LoadsAfter(load, web_servers, ret'.res, ret'.sel),
                                   databases, ret'.dbres, ret'.dbsel)
             /\ ret'.res \in {"ok", "process_request failed"}
             /\ ret'.res = "process_request failed" =>
                   (ret'.dbres = "none" /\ load' = load)]_vars

\* C3's case: a call has failed in the selected service, which had served
\* before, on a pool of several services.
C3_Witness ==
    /\ ret.op = "distribute_request"
    /\ ret.res = "process_request failed"
    /\ Len(services) >= 2
    /\ load[services[ret.sel + 1]] >= 1

\* C4: distribute_request on a pool with no service fails with the empty-pool
\* error and leaves every load, both the pool and the cursor unchanged.
C4_EmptyPoolFails ==
    [][/\ (ret'.op = "distribute_request" /\ services = <<>>)
          => /\ ret'.res = "No services available"
             /\ UNCHANGED <<load, services, last_service_index>>
       /\ (ret'.op = "process_request" /\ web_servers = <<>>)
          => /\ ret'.res = "No services available"
             /\ UNCHANGED <<load, cost, web_servers, databases, web_lb_index,
                            db_lb_index>>]_vars

\* C4's case: a request has failed on the emptied web server pool, whose
\* cursor had moved before, while other services carry load.
C4_Witness ==
    /\ ret.op = "process_request"
    /\ ret.res = "No services available"
    /\ web_servers = <<>>
    /\ web_lb_index >= 0
    /\ \E o \in Objs : load[o] > 0

\* avg_load of a pool of n positions with the given total load, compared as
\* the claims state it (avg_load is 0 for an empty pool).
AvgAbove(total, n, t) == (n = 0 /\ 0 > t) \/ (n > 0 /\ total > t * n)
AvgBelow(total, n, t) == (n = 0 /\ 0 < t) \/ (n > 0 /\ total < t * n)
AvgWithin(total, n, lo, hi) == ~AvgBelow(total, n, lo) /\ ~AvgAbove(total, n, hi)

\* C5: when avg_load > scale_up_threshold and the pool is smaller than
\* max_services, one check_and_scale call appends exactly one factory-made
\* service at the end of the pool (the size grows by 1, the services before it
\* keep their positions); with the pool at max_services or more it appends
\* nothing.
C5_ScaleUpAppendsOne ==
    [][ret'.op = "check_and_scale" =>
         LET n == Len(services)
             total == SumLoad(services, load)
         IN  /\ (AvgAbove(total, n, scale_up_threshold) /\ n < max_services)
                  => /\ Len(services') = n + 1
                     /\ SubSeq(services', 1, n) = services
                     /\ services'[n + 1] \in FactoryResults(services)
                     /\ ret'.made = "service"
                     /\ load' = load
             /\ n >= max_services => Len(services') <= n]_vars

\* C5's case: a scale-up has brought a pool of two distinct services to
\* max_services = 3.
C5_Witness ==
    /\ ret.op = "check_and_scale"
    /\ ret.res = "scale_up"
    /\ Len(services) = 3
    /\ max_services = 3
    /\ services[1] # services[2]

\* C6: when avg_load < scale_down_threshold, the pool is larger than
\* min_services and the scale-up condition does not hold, one check_and_scale
\* call removes the element at the last pool position and leaves the other
\* positions as they are, also when one service object is at several
\* positions.
C6_ScaleDownRemovesLast ==
    [][ret'.op = "check_and_scale" =>
         LET n == Len(services)
             total == SumLoad(services, load)
         IN  (/\ ~(AvgAbove(total, n, scale_up_threshold) /\ n < max_services)
              /\ AvgBelow(total, n, scale_down_threshold)
              /\ n > min_services)
             => services' = SubSeq(services, 1, n - 1)]_vars

\* C7: a check_and_scale call made while scale_down_threshold <= avg_load <=
\* scale_up_threshold (both ends included) changes neither the members nor
\* the order of any pool, in both autoscalers and for any pool size; the
\* average is in the band afterwards too, so that calling again changes
\* nothing either.
C7_NoOpBand ==
    [][ret'.op = "check_and_scale" =>
         /\ (/\ program = "static_webtier"
             /\ AvgWithin(SumLoad(services, load), Len(services),
                           scale_down_threshold, scale_up_threshold))
            => /\ UNCHANGED <<services, load>>
               /\ AvgWithin(SumLoad(services', load'), Len(services'),
                             scale_down_threshold, scale_up_threshold)
         /\ (/\ program = "dynamic_webtier_simul"
             /\ AvgWithin(SumLoad(web_servers \o databases, load),
                           Len(web_servers \o databases),
                           scale_down_threshold, scale_up_threshold))
            => /\ UNCHANGED <<web_servers, databases, load, cost>>
               /\ AvgWithin(SumLoad(web_servers' \o databases', load'),
                             Len(web_servers' \o databases'),
                             scale_down_threshold, scale_up_threshold)]_vars

\* C7's case: a check made with avg_load exactly scale_up_threshold, on a
\* pool that has room to grow, has changed nothing.
C7_Witness ==
    /\ program = "static_webtier"
    /\ ret.op = "check_and_scale"
    /\ ret.res = "none"
    /\ Len(services) >= 1
    /\ Len(services) < max_services
    /\ scale_down_threshold <= scale_up_threshold
    /\ SumLoad(services, load) = scale_up_threshold * Len(services)

\* C8: a DynamicServiceManager starts with exactly min_services services, and
\* with min_services <= max_services the pool size is within
\* [min_services, max_services] after any sequence of check_and_scale and
\* distribute_request calls.
C8_PoolSizeWithinBounds ==
    /\ ret.op = "init" => Len(services) = min_services
    /\ min_services <= max_services =>
          (min_services <= Len(services) /\ Len(services) <= max_services)

\* C8's case: the pool has grown from min_services to max_services and its
\* average load still exceeds scale_up_threshold.
C8_Witness ==
    /\ min_services < max_services
    /\ Len(services) = max_services
    /\ ret.op = "distribute_request"
    /\ AvgAbove(SumLoad(services, load), Len(services), scale_up_threshold)

\* The cost of all services of both pools.
CurrentCost == SumCost(web_servers, cost) + SumCost(databases, cost)
InitialCost == initial_web_servers * WebServerCost + initial_databases * DatabaseCost

\* C9: if the initial cost of all web servers and databases is at most
\* total_budget, the cost of all services of both pools is at most
\* total_budget after any sequence of check_and_scale calls, whatever
\* random.random() returns and whatever the factory-made services cost.
C9_BudgetCeiling ==
    InitialCost <= total_budget => CurrentCost <= total_budget

\* C9's case: a scale-up has left less budget than any service costs.
C9_Witness ==
    /\ program = "dynamic_webtier_simul"
    /\ ret.op = "check_and_scale"
    /\ ret.res = "scale_up"
    /\ InitialCost <= total_budget
    /\ CurrentCost > InitialCost
    /\ \A c \in Costs : c > total_budget - CurrentCost

\* The log events that would record a rejected scale-up.
RejectionEvents == {"BudgetExceededError", "Scale-up rejected"}

\* C10: when the scale-up branch is taken and the factory returns a service
\* whose cost exceeds available_budget, no pool changes (the other class is
\* not tried in the same call) and a rejection event is logged.
C10_RejectedScaleUpIsLogged ==
    [][(/\ ret'.op = "check_and_scale"
        /\ ret'.made # "none"
        /\ ret'.made_cost > ret'.avail)
       => /\ UNCHANGED <<web_servers, databases>>
          /\ \E i \in 1..Len(ret'.log) : ret'.log[i] \in RejectionEvents]_vars

\* The policy tags distribute_request selects with.
KnownAlgorithms == {"round_robin", "least_connections"}

\* C11: a load balancer whose policy tag is not a known one fails every
\* distribute_request with the configuration error, whatever the pool holds
\* (the empty pool included), and touches nothing: no service.process_request,
\* no load change, no cursor change.
C11_UnknownPolicyFailsFast ==
    [][(/\ ret'.op = "distribute_request"
        /\ distribution_algorithm \notin KnownAlgorithms)
       => /\ ret'.res = "Unknown distribution algorithm"
          /\ ret'.sel = -1
          /\ UNCHANGED <<load, services, last_service_index>>]_vars

\* The exceptions a tier's distribute_request can raise.
TierErrors == {"No services available", "process_request failed"}

\* C12: process_request dispatches the compute tier first and the storage tier
\* only after the compute tier returned.  If the compute tier failed, the
\* storage tier is not dispatched at all.  If the compute tier succeeded and
\* the storage tier failed, the error reaches the caller, no combined response
\* is returned, and the compute tier keeps its cursor advance and its load
\* increment.
C12_ComputeThenStorage ==
    [][ret'.op = "process_request"
       => /\ ret'.res \in TierErrors
             => /\ ret'.dbres = "none"
                /\ ret'.dbsel = -1
                /\ ret'.out = ret'.res
                /\ db_lb_index' = db_lb_index
                /\ visited'["db_lb"] = visited["db_lb"]
                /\ \A i \in 1..Len(databases) : load'[databases[i]] = load[databases[i]]
          /\ (ret'.res = "ok" /\ ret'.dbres \in TierErrors)
             => /\ ret'.out = ret'.dbres
                /\ ret'.sel = (web_lb_index + 1) % Len(web_servers)
                /\ web_lb_index' = ret'.sel
                /\ load'[web_servers[ret'.sel + 1]] = load[web_servers[ret'.sel + 1]] + 1
          /\ ret'.out \notin TierErrors
             => ret'.res = "ok" /\ ret'.dbres = "ok"]_vars

\* C12's case: the web tier served a request, advancing its cursor past the
\* first position, and the storage tier then failed it.
C12_Witness ==
    /\ ret.op = "process_request"
    /\ ret.res = "ok"
    /\ ret.sel >= 1
    /\ ret.dbres = "process_request failed"
    /\ ret.out = "process_request failed"
    /\ web_lb_index = ret.sel
    /\ load[web_servers[ret.sel + 1]] >= 1

\* The ways a distribute_request may end: it is still running, it returned,
\* the pool was empty, or the selected service failed.
DispatchOutcomes ==
    {"none", "running", "ok", "No services available", "process_request failed"}

\* C13: a distribute_request that a scale-down of the autoscaler thread
\* interleaves with sees one pool size in its modulo and in its index access:
\* the index is never out of range, and the request never fails for a reason
\* other than an empty pool or a failing service.
C13_ConsistentPoolSnapshot ==
    \A w \in Workers :
        /\ workers[w].res \in DispatchOutcomes
        /\ workers[w].pc = "get"
           => TierIndex(workers[w].tier) < Len(TierPool(workers[w].tier))

\* C14: load counters are exact under concurrent dispatch: once every request
\* taken by the workers has completed, each service's load is the number of
\* requests it processed (no increment of load += 1 is lost).
C14_NoLostIncrement ==
    (\A w \in Workers : workers[w].pc = "idle")
    => \A o \in Range(web_servers \o databases) : load[o] = processed[o]

\* No two positions of a pool hold services with the same service_id.
UniqueIds(pool) ==
    \A i, j \in 1..Len(pool) : i # j => service_id[pool[i]] # service_id[pool[j]]

\* C15: no two services of one pool have the same id, after construction and
\* after any scale-ups made with the factories the program ships.
C15_UniqueIdsInPool ==
    UniqueIds(services) /\ UniqueIds(web_servers) /\ UniqueIds(databases)

\* The services of both pools, and whether a step removed one.
TotalServices == Len(web_servers) + Len(databases)
ServiceRemoved ==
    Len(web_servers') < Len(web_servers) \/ Len(databases') < Len(databases)

\* C16: the budget variant's check_and_scale removes a service only if
\* avg_load < scale_down_threshold and the two pools hold more than 2
\* services in total; with 2 or fewer (2 web servers and no database, or none
\* and 2, included) nothing is removed.
C16_ScaleDownNeedsMoreThanTwo ==
    [][(ret'.op = "check_and_scale" /\ ServiceRemoved)
       => /\ AvgBelow(SumLoad(web_servers \o databases, load), TotalServices,
                      scale_down_threshold)
          /\ TotalServices > 2]_vars

\* C17: a scale-down on a web pool of at most one element removes from the
\* storage pool and leaves the web pool alone; hence a web pool that holds a
\* web server is never emptied by check_and_scale.
C17_WebPoolNeverEmptied ==
    [][ret'.op = "check_and_scale"
       => /\ (ServiceRemoved /\ Len(web_servers) <= 1)
             => /\ web_servers' = web_servers
                /\ databases' = ListPop(databases)
          /\ Len(web_servers) >= 1 => Len(web_servers') >= 1]_vars

\* available_budget as check_and_scale computes it, and the average load
\* against the scale-up threshold.
AvailableBudget == total_budget - CurrentCost
LoadAboveScaleUp ==
    AvgAbove(SumLoad(web_servers \o databases, load), TotalServices, scale_up_threshold)

\* C18: the budget variant's check_and_scale adds a service only if
\* avg_load > scale_up_threshold and available_budget > 0, and at most one per
\* call; a database only when available_budget >= 20, a web server only when
\* available_budget >= 10; so with 0 < available_budget < 10 it adds nothing.
C18_ScaleUpEligibility ==
    [][ret'.op = "check_and_scale"
       => LET web_added == Len(web_servers') - Len(web_servers)
              db_added == Len(databases') - Len(databases)
          IN  /\ web_added + db_added <= 1
              /\ (web_added > 0 \/ db_added > 0)
                 => LoadAboveScaleUp /\ AvailableBudget > 0
              /\ db_added > 0 => AvailableBudget >= 20
              /\ web_added > 0 => AvailableBudget >= 10
              /\ (0 < AvailableBudget /\ AvailableBudget < 10)
                 => web_added <= 0 /\ db_added <= 0]_vars

\* C18's case: a check_and_scale found the load above the threshold and an
\* available budget between 0 and 10, and added nothing.
C18_Witness ==
    /\ ret.op = "check_and_scale"
    /\ ret.res = "none"
    /\ LoadAboveScaleUp
    /\ 0 < AvailableBudget
    /\ AvailableBudget < 10
    /\ ret.avail = AvailableBudget

\* C19: add_service and remove_service leave last_service_index as it is (it
\* may then be >= the new pool size); the next round_robin distribute_request
\* on a non-empty pool of size n selects index (cursor + 1) mod n, which lies
\* in 0..n-1, and stores it as the new cursor.
C19_CursorThroughResizes ==
    [][/\ ret'.op = "check_and_scale" => last_service_index' = last_service_index
       /\ (/\ ret'.op = "distribute_request"
           /\ distribution_algorithm = "round_robin"
           /\ services # <<>>)
          => LET n == Len(services)
             IN  /\ ret'.sel = (last_service_index + 1) % n
                 /\ ret'.sel \in 0..(n - 1)
                 /\ last_service_index' = ret'.sel]_vars

\* C19's case: a removal left the cursor at or beyond the pool size, and the
\* next round_robin distribute_request selected from that cursor.
C19_Witness ==
    /\ distribution_algorithm = "round_robin"
    /\ ret.op = "distribute_request"
    /\ Len(services) >= 2
    /\ Len(visited["lb"].sel) = 1
    /\ visited["lb"].start >= Len(services)
    /\ ret.sel = (visited["lb"].start + 1) % Len(services)
    /\ last_service_index = ret.sel

\* A pool no check_and_scale changes: the average load is in the band, or the
\* size bound stops the change the load asks for.
StablePool ==
    LET n == Len(services)
        total == SumLoad(services, load)
    IN  /\ ~(AvgAbove(total, n, scale_up_threshold) /\ n < max_services)
        /\ ~(AvgBelow(total, n, scale_down_threshold) /\ n > min_services)

\* C20: with the default thresholds (10 and 5) and no request dispatched, a
\* check_and_scale that scales up is never immediately followed by one that
\* scales down, nor one that scales down by one that scales up; and repeated
\* check_and_scale calls eventually reach a pool no further call changes.
C20_NoFlapping ==
    /\ [][/\ ret.res = "scale_up" => ret'.res # "scale_down"
          /\ ret.res = "scale_down" => ret'.res # "scale_up"]_vars
    /\ <>[]StablePool

\* C20's case: a check scaled the pool up to a size from which it could go
\* either way, and no further check changes it.
C20_Witness ==
    /\ scale_up_threshold = 10
    /\ scale_down_threshold = 5
    /\ ret.op = "check_and_scale"
    /\ ret.res = "scale_up"
    /\ Len(services) > min_services
    /\ Len(services) < max_services
    /\ StablePool
====
